---- MODULE Spec2Model ----
(***************************************************************************)
(* Model of the prompt-refinement pipeline: format dispatch and text       *)
(* extraction (input_processor.py), the relevance gate and the rule-based  *)
(* refiner (refinement_engine.py) and the orchestration of the stages      *)
(* (main_system.py).                                                       *)
(*                                                                         *)
(* A Python str is a sequence of one-character strings, so that lower(),   *)
(* strip(), split(), the `in` operator, join() and slicing are computed    *)
(* character by character as CPython computes them.  A formatted message   *)
(* (f-string) is the record [fmt |-> fixed part, arg |-> inserted part].   *)
(***************************************************************************)
EXTENDS Integers, Sequences, FiniteSets, TLC

VARIABLES fs, deps, pc, inputs, output_name, processed, verdict, refined,
          ret, files, calls, unit

vars == <<fs, deps, pc, inputs, output_name, processed, verdict, refined,
          ret, files, calls, unit>>

(***************************************************************************)
(* Bounds of the model.                                                    *)
(***************************************************************************)
\* longest input list handed to process_and_refine / process_multiple_inputs
MaxInputs == 2
\* number of vocabulary phrases at the head of a generated content string
MaxHead == 2
\* number of filler words appended to a generated content string
MaxPad == 10

(***************************************************************************)
(* Python str primitives.                                                  *)
(***************************************************************************)
UpperCase == <<"A","B","C","D","E","F","G","H","I","J","K","L","M",
               "N","O","P","Q","R","S","T","U","V","W","X","Y","Z">>
LowerCase == <<"a","b","c","d","e","f","g","h","i","j","k","l","m",
               "n","o","p","q","r","s","t","u","v","w","x","y","z">>

\* characters str.split() and str.strip() treat as whitespace
Whitespace == {" ", "\n", "\t", "\r"}

\* the letter pairs of str.lower(), as a lookup table
ToLower == [c \in {UpperCase[i] : i \in 1..26} |->
               LowerCase[CHOOSE i \in 1..26 : UpperCase[i] = c]]

LowerChar(c) == IF c \in DOMAIN ToLower THEN ToLower[c] ELSE c

\* s.lower()
lower(s) == [i \in 1..Len(s) |-> LowerChar(s[i])]

\* p in s
Contains(s, p) ==
    \E i \in 1..(Len(s) - Len(p) + 1) :
        \A j \in 1..Len(p) : s[i + j - 1] = p[j]

\* any(p in s for p in patterns)
AnyIn(patterns, s) == \E k \in 1..Len(patterns) : Contains(s, patterns[k])

\* len(s.split()): the number of maximal runs of non-whitespace characters
WordCount(s) ==
    Cardinality({i \in 1..Len(s) :
                    /\ s[i] \notin Whitespace
                    /\ (i = 1 \/ s[i-1] \in Whitespace)})

\* s.strip()
strip(s) ==
    LET keep == {i \in 1..Len(s) : s[i] \notin Whitespace}
    IN  IF keep = {} THEN <<>>
        ELSE LET a == CHOOSE i \in keep : \A j \in keep : i <= j
                 b == CHOOSE i \in keep : \A j \in keep : j <= i
             IN  SubSeq(s, a, b)

\* sep.join(parts)
RECURSIVE join(_, _)
join(sep, parts) ==
    IF Len(parts) = 0 THEN <<>>
    ELSE IF Len(parts) = 1 THEN parts[1]
    ELSE parts[1] \o sep \o join(sep, Tail(parts))

\* the value a variable holds before the code assigns it
None == [none |-> TRUE]

\* the empty dict {}
EmptyDict == [k \in {} |-> k]

\* d.get(key, default)
Get(d, key, default) == IF key \in DOMAIN d THEN d[key] ELSE default

(***************************************************************************)
(* refinement_engine.py: the relevance gate.                               *)
(***************************************************************************)
relevance_keywords ==
    << <<"b","u","i","l","d">>, <<"c","r","e","a","t","e">>, <<"d","e","v","e","l","o","p">>, <<"d","e","s","i","g","n">>, <<"i","m","p","l","e","m","e","n","t">>,
       <<"m","a","k","e">>, <<"g","e","n","e","r","a","t","e">>, <<"a","n","a","l","y","z","e">>, <<"c","a","l","c","u","l","a","t","e">>, <<"w","r","i","t","e">>,
       <<"p","r","o","d","u","c","e">>, <<"s","y","s","t","e","m">>, <<"a","p","p","l","i","c","a","t","i","o","n">>, <<"a","p","p">>, <<"s","o","f","t","w","a","r","e">>,
       <<"t","o","o","l">>, <<"s","o","l","u","t","i","o","n">>, <<"w","e","b","s","i","t","e">>, <<"d","a","s","h","b","o","a","r","d">>, <<"p","l","a","t","f","o","r","m">>,
       <<"s","e","r","v","i","c","e">>, <<"a","p","i">> >>

greetings == << <<"h","e","l","l","o">>, <<"h","i">>, <<"h","e","y">>, <<"g","r","e","e","t","i","n","g","s">> >>

spam_patterns ==
    << <<"b","u","y"," ","n","o","w">>, <<"c","l","i","c","k"," ","h","e","r","e">>, <<"l","i","m","i","t","e","d"," ","o","f","f","e","r">>, <<"a","c","t"," ","n","o","w">> >>

TooShort   == "Input too short (less than 5 words)"
Greeting   == "Input appears to be a greeting"
Spam       == "Input appears to be spam"
NoKeywords == "Input does not contain task-related keywords"
Relevant   == "Input appears relevant"

\* is_relevant_prompt with the greeting rule tried before the length rule
is_relevant_prompt_greeting_first(content) ==
    LET content_lower == lower(content)
    IN  IF AnyIn(greetings, content_lower) /\ WordCount(content) < 10
        THEN <<FALSE, Greeting>>
        ELSE IF WordCount(content) < 5
        THEN <<FALSE, TooShort>>
        ELSE IF AnyIn(spam_patterns, content_lower)
        THEN <<FALSE, Spam>>
        ELSE IF ~AnyIn(relevance_keywords, content_lower)
        THEN <<FALSE, NoKeywords>>
        ELSE <<TRUE, Relevant>>

\* is_relevant_prompt matching the patterns against the content as typed
is_relevant_prompt_case_sensitive(content) ==
    IF WordCount(content) < 5
    THEN <<FALSE, TooShort>>
    ELSE IF AnyIn(greetings, content) /\ WordCount(content) < 10
    THEN <<FALSE, Greeting>>
    ELSE IF AnyIn(spam_patterns, content)
    THEN <<FALSE, Spam>>
    ELSE IF ~AnyIn(relevance_keywords, content)
    THEN <<FALSE, NoKeywords>>
    ELSE <<TRUE, Relevant>>

\* is_relevant_prompt with the keyword rule tried before the spam rule
is_relevant_prompt_keywords_first(content) ==
    LET content_lower == lower(content)
    IN  IF WordCount(content) < 5
        THEN <<FALSE, TooShort>>
        ELSE IF AnyIn(greetings, content_lower) /\ WordCount(content) < 10
        THEN <<FALSE, Greeting>>
        ELSE IF ~AnyIn(relevance_keywords, content_lower)
        THEN <<FALSE, NoKeywords>>
        ELSE IF AnyIn(spam_patterns, content_lower)
        THEN <<FALSE, Spam>>
        ELSE <<TRUE, Relevant>>

\* the pair (is_relevant, reason) returned for a content string
is_relevant_prompt(content) ==
    LET content_lower == lower(content)
    IN  IF WordCount(content) < 5
        THEN <<FALSE, TooShort>>
        ELSE IF AnyIn(greetings, content_lower) /\ WordCount(content) < 10
        THEN <<FALSE, Greeting>>
        ELSE IF AnyIn(spam_patterns, content_lower)
        THEN <<FALSE, Spam>>
        ELSE IF ~AnyIn(relevance_keywords, content_lower)
        THEN <<FALSE, NoKeywords>>
        ELSE <<TRUE, Relevant>>

(***************************************************************************)
(* The environment of input_processor.py: the paths that may exist on the  *)
(* filesystem, what the decoding libraries read from them, and whether     *)
(* the optional libraries were importable when the module was loaded.      *)
(***************************************************************************)
TxtPath    == <<"a",".","t","x","t">>
MdPath     == <<"N",".","M","D">>
PngPath    == <<"s",".","p","n","g">>
JpegPath   == <<"c",".","J","P","e","G">>
PdfPath    == <<"p","/","d",".","p","d","f">>
DocxPath   == <<"r",".","d","o","c","x">>
ExePath    == <<"x",".","e","x","e">>
NoExtPath  == <<"R","E","A","D","M","E">>
DotPath    == <<".","t","x","t">>
GifPath    == <<"g",".","g","i","f">>

\* the references that name a file in some state of the filesystem
Paths == {TxtPath, MdPath, PngPath, JpegPath, PdfPath, DocxPath, ExePath,
          NoExtPath, DotPath, GifPath}

\* references that never name a file
MissingFile  == <<"n","o","f","i","l","e",".","x","y","z">>
BackslashRef == <<"a","\\","b">>
HiThere      == <<"h","i"," ","t","h","e","r","e">>
LoginText    == <<"B","u","i","l","d"," ","a"," ","l","o","g","i","n"," ","s","y","s","t","e","m"," ","w","i","t","h"," ","d","a","t","a","b","a","s","e"," ","s","t","o","r","a","g","e"," ","f","o","r"," ","o","u","r"," ","c","o","m","p","a","n","y">>
PeriodText   == <<"B","u","i","l","d"," ","a","n"," ","a","p","p",".">>
PaddedText   == <<" "," ","P","l","e","a","s","e"," ","d","e","s","i","g","n"," ","a"," ","n","e","w"," ","d","a","s","h","b","o","a","r","d","\n">>
EmptyText    == <<>>

\* the references a caller may pass
Refs == Paths \cup {MissingFile, BackslashRef, HiThere, LoginText, PeriodText,
                    PaddedText, EmptyText}

\* the references used in multi-input pipeline runs
AggRefs == {TxtPath, PdfPath, ExePath, NoExtPath, MissingFile, HiThere,
            PaddedText}

\* f.read() of a text file
FileText(p) ==
    IF p = TxtPath THEN <<"\n","D","e","s","i","g","n"," ","a"," ","d","a","s","h","b","o","a","r","d"," ","t","o"," ","a","n","a","l","y","z","e"," ","s","a","l","e","s"," ","d","a","t","a","\n">>
    ELSE IF p = MdPath THEN <<"h","e","l","l","o">>
    ELSE <<"x">>

\* pytesseract.image_to_string(img), img.size and img.format of an image
ImageText(p) ==
    IF p = PngPath THEN <<"W","r","i","t","e"," ","c","o","d","e"," ","\n">>
    ELSE IF p = GifPath THEN <<"C","r","e","a","t","e"," ","a"," ","t","o","o","l"," ","f","o","r"," ","t","h","e"," ","t","e","a","m">>
    ELSE <<>>
ImageSize(p) == IF p = PngPath THEN <<640, 480>> ELSE <<1, 1>>
ImageFormat(p) ==
    IF p = PngPath THEN "PNG" ELSE IF p = GifPath THEN "GIF" ELSE "JPEG"

\* page.extract_text() of the pages of a PDF
PdfPages(p) == << <<"B","u","i","l","d"," ","a"," ","r","e","p","o","r","t","i","n","g">>, <<"s","y","s","t","e","m"," ","f","o","r"," ","t","h","e"," ","s","a","l","e","s"," ","t","e","a","m">> >>

\* para.text of the paragraphs and cell.text of the tables of a document
DocParagraphs(p) == << <<"C","r","e","a","t","e"," ","a","n"," ","a","p","p">>, <<"f","o","r"," ","l","o","g","i","n">> >>
DocTables(p)     == << << << <<"a">>, <<"b">> >>, << <<"c">>, <<"d">> >> >> >>

\* str(e) of the exception a decoding library raises on an unreadable file
ExcText == <<"c","a","n","n","o","t"," ","r","e","a","d">>

\* states of the filesystem: every path readable, missing, or unreadable
FsSnapshots == {[p \in Paths |-> "ok"], [p \in Paths |-> "absent"],
                [p \in Paths |-> "bad"]}

\* outcomes of the guarded imports at the top of input_processor.py
DepsSnapshots == {[image |-> TRUE, pdf |-> TRUE, docx |-> TRUE],
                  [image |-> FALSE, pdf |-> FALSE, docx |-> FALSE]}

\* os.path.exists(path)
exists(path) == path \in Paths /\ fs[path] # "absent"

\* os.path.basename(path)
basename(path) ==
    LET slashes == {i \in 1..Len(path) : path[i] = "/"}
    IN  IF slashes = {} THEN path
        ELSE SubSeq(path, (CHOOSE i \in slashes : \A j \in slashes : j <= i) + 1,
                    Len(path))

\* Path(path).suffix: from the last dot of the name, unless the dot is the
\* first or the last character of the name
suffix(path) ==
    LET name == basename(path)
        dots == {i \in 1..Len(name) : name[i] = "."}
    IN  IF dots = {} THEN <<>>
        ELSE LET i == CHOOSE i \in dots : \A j \in dots : j <= i
             IN  IF 1 < i /\ i < Len(name) THEN SubSeq(name, i, Len(name))
                 ELSE <<>>

(***************************************************************************)
(* input_processor.py                                                      *)
(***************************************************************************)
supported_formats ==
    [text  |-> {<<".","t","x","t">>, <<".","m","d">>},
     image |-> {<<".","j","p","g">>, <<".","j","p","e","g">>, <<".","p","n","g">>, <<".","b","m","p">>, <<".","g","i","f">>},
     pdf   |-> {<<".","p","d","f">>},
     docx  |-> {<<".","d","o","c","x">>}]

\* the dict every failing branch returns; error is fmt followed by arg
ErrorResult(fmt, arg) ==
    [type |-> "error", content |-> <<>>, metadata |-> EmptyDict,
     success |-> FALSE, error |-> [fmt |-> fmt, arg |-> arg]]

process_text(text) ==
    [type |-> "text", content |-> strip(text),
     metadata |-> [length |-> Len(text), source |-> "direct_input"],
     success |-> TRUE]

process_text_file(file_path) ==
    IF fs[file_path] = "ok"
    THEN LET content == FileText(file_path)
         IN  [type |-> "text", content |-> strip(content),
              metadata |-> [filename |-> basename(file_path),
                            length |-> Len(content), source |-> "file"],
              success |-> TRUE]
    ELSE ErrorResult("", ExcText)

process_image(image_path) ==
    IF ~deps.image
    THEN ErrorResult("PIL or pytesseract not installed", <<>>)
    ELSE IF fs[image_path] = "ok"
    THEN LET text == ImageText(image_path)
         IN  [type |-> "image", content |-> strip(text),
              metadata |-> [filename |-> basename(image_path),
                            size |-> ImageSize(image_path),
                            format |-> ImageFormat(image_path),
                            source |-> "ocr"],
              success |-> TRUE]
    ELSE ErrorResult("Image processing error: ", ExcText)

\* text += page.extract_text() + "\n" over the pages
RECURSIVE PagesText(_)
PagesText(pages) ==
    IF Len(pages) = 0 THEN <<>>
    ELSE pages[1] \o <<"\n">> \o PagesText(Tail(pages))

process_pdf(pdf_path) ==
    IF ~deps.pdf
    THEN ErrorResult("PyPDF2 not installed", <<>>)
    ELSE IF fs[pdf_path] = "ok"
    THEN LET pages == PdfPages(pdf_path)
             text  == PagesText(pages)
         IN  [type |-> "pdf", content |-> strip(text),
              metadata |-> [filename |-> basename(pdf_path),
                            num_pages |-> Len(pages),
                            length |-> Len(text),
                            source |-> "pdf_extraction"],
              success |-> TRUE]
    ELSE ErrorResult("PDF processing error: ", ExcText)

\* the rows of all tables, each rendered as its cells joined by " | "
RECURSIVE TableRows(_)
TableRows(tables) ==
    IF Len(tables) = 0 THEN <<>>
    ELSE [r \in 1..Len(tables[1]) |-> join(<<" ","|"," ">>, tables[1][r])]
         \o TableRows(Tail(tables))

process_docx(docx_path) ==
    IF ~deps.docx
    THEN ErrorResult("python-docx not installed", <<>>)
    ELSE IF fs[docx_path] = "ok"
    THEN LET paras      == DocParagraphs(docx_path)
             tables     == DocTables(docx_path)
             table_text == TableRows(tables)
             text       == IF Len(table_text) > 0
                           THEN join(<<"\n">>, paras) \o <<"\n","\n","T","a","b","l","e","s",":","\n">>
                                \o join(<<"\n">>, table_text)
                           ELSE join(<<"\n">>, paras)
         IN  [type |-> "docx", content |-> strip(text),
              metadata |-> [filename |-> basename(docx_path),
                            num_paragraphs |-> Len(paras),
                            num_tables |-> Len(tables),
                            length |-> Len(text),
                            source |-> "docx_extraction"],
              success |-> TRUE]
    ELSE ErrorResult("DOCX processing error: ", ExcText)

\* a returned dict together with the extractor methods that were called
Invoke(name, result) == [result |-> result, invoked |-> <<name>>]
NoInvoke(result)     == [result |-> result, invoked |-> <<>>]

\* any(char in input_path for char in ['.', '/', '\\'])
PathLike(input_path) ==
    \E i \in 1..Len(input_path) : input_path[i] \in {".", "/", "\\"}

\* process_input treating only '.' and '/' as path characters
process_input_call_no_backslash(input_path) ==
    IF ~exists(input_path)
    THEN IF ~(\E i \in 1..Len(input_path) : input_path[i] \in {".", "/"})
         THEN Invoke("process_text", process_text(input_path))
         ELSE NoInvoke(ErrorResult("File not found", <<>>))
    ELSE LET file_ext == lower(suffix(input_path))
         IN  IF file_ext \in supported_formats.text
             THEN Invoke("process_text_file", process_text_file(input_path))
             ELSE IF file_ext \in supported_formats.image
             THEN Invoke("process_image", process_image(input_path))
             ELSE IF file_ext \in supported_formats.pdf
             THEN Invoke("process_pdf", process_pdf(input_path))
             ELSE IF file_ext \in supported_formats.docx
             THEN Invoke("process_docx", process_docx(input_path))
             ELSE NoInvoke(ErrorResult("Unsupported file format: ", file_ext))

\* process_input looking the suffix up without lowering it
process_input_call_no_lower(input_path) ==
    IF ~exists(input_path)
    THEN IF ~PathLike(input_path)
         THEN Invoke("process_text", process_text(input_path))
         ELSE NoInvoke(ErrorResult("File not found", <<>>))
    ELSE LET file_ext == suffix(input_path)
         IN  IF file_ext \in supported_formats.text
             THEN Invoke("process_text_file", process_text_file(input_path))
             ELSE IF file_ext \in supported_formats.image
             THEN Invoke("process_image", process_image(input_path))
             ELSE IF file_ext \in supported_formats.pdf
             THEN Invoke("process_pdf", process_pdf(input_path))
             ELSE IF file_ext \in supported_formats.docx
             THEN Invoke("process_docx", process_docx(input_path))
             ELSE NoInvoke(ErrorResult("Unsupported file format: ", file_ext))

\* the routing of process_input: the dict it returns and what it called
process_input_call(input_path) ==
    IF ~exists(input_path)
    THEN IF ~PathLike(input_path)
         THEN Invoke("process_text", process_text(input_path))
         ELSE NoInvoke(ErrorResult("File not found", <<>>))
    ELSE LET file_ext == lower(suffix(input_path))
         IN  IF file_ext \in supported_formats.text
             THEN Invoke("process_text_file", process_text_file(input_path))
             ELSE IF file_ext \in supported_formats.image
             THEN Invoke("process_image", process_image(input_path))
             ELSE IF file_ext \in supported_formats.pdf
             THEN Invoke("process_pdf", process_pdf(input_path))
             ELSE IF file_ext \in supported_formats.docx
             THEN Invoke("process_docx", process_docx(input_path))
             ELSE NoInvoke(ErrorResult("Unsupported file format: ", file_ext))

process_input(input_path) == process_input_call(input_path).result

\* the two strings appended to combined_content for a successful result
RECURSIVE Blocks(_)
Blocks(results) ==
    IF Len(results) = 0 THEN <<>>
    ELSE LET result == results[1]
         IN  IF result.success
             THEN << <<"-","-","-"," ","S","o","u","r","c","e",":"," ">>
                     \o Get(result.metadata, "filename", <<"t","e","x","t"," ","i","n","p","u","t">>)
                     \o <<" ","-","-","-">>,
                     result.content >> \o Blocks(Tail(results))
             ELSE Blocks(Tail(results))

\* process_multiple_inputs collecting the successful results newest first
process_multiple_inputs_reversed(input_paths) ==
    LET results   == [i \in 1..Len(input_paths) |-> process_input(input_paths[i])]
        succeeded == SelectSeq(results, LAMBDA r : r.success)
        n         == Len(succeeded)
        newest    == [i \in 1..n |-> succeeded[n + 1 - i]]
    IN  [type |-> "mixed",
         content |-> join(<<"\n","\n">>, Blocks(newest)),
         metadata |->
            [sources |-> [i \in 1..n |->
                            Get(newest[i].metadata, "filename", <<"t","e","x","t">>)],
             types   |-> [i \in 1..n |-> newest[i].type]],
         individual_results |-> results,
         success |-> \A i \in 1..Len(results) : results[i].success]

\* process_multiple_inputs succeeding as soon as one input succeeds
process_multiple_inputs_any_success(input_paths) ==
    LET results   == [i \in 1..Len(input_paths) |-> process_input(input_paths[i])]
        succeeded == SelectSeq(results, LAMBDA r : r.success)
    IN  [type |-> "mixed",
         content |-> join(<<"\n","\n">>, Blocks(results)),
         metadata |->
            [sources |-> [i \in 1..Len(succeeded) |->
                            Get(succeeded[i].metadata, "filename", <<"t","e","x","t">>)],
             types   |-> [i \in 1..Len(succeeded) |-> succeeded[i].type]],
         individual_results |-> results,
         success |-> \E i \in 1..Len(results) : results[i].success]

\* process_multiple_inputs joining the contents without the delimiter lines
process_multiple_inputs_no_delimiter(input_paths) ==
    LET results   == [i \in 1..Len(input_paths) |-> process_input(input_paths[i])]
        succeeded == SelectSeq(results, LAMBDA r : r.success)
    IN  [type |-> "mixed",
         content |-> join(<<"\n","\n">>,
                          [i \in 1..Len(succeeded) |-> succeeded[i].content]),
         metadata |->
            [sources |-> [i \in 1..Len(succeeded) |->
                            Get(succeeded[i].metadata, "filename", <<"t","e","x","t">>)],
             types   |-> [i \in 1..Len(succeeded) |-> succeeded[i].type]],
         individual_results |-> results,
         success |-> \A i \in 1..Len(results) : results[i].success]

process_multiple_inputs(input_paths) ==
    LET results   == [i \in 1..Len(input_paths) |-> process_input(input_paths[i])]
        succeeded == SelectSeq(results, LAMBDA r : r.success)
    IN  [type |-> "mixed",
         content |-> join(<<"\n","\n">>, Blocks(results)),
         metadata |->
            [sources |-> [i \in 1..Len(succeeded) |->
                            Get(succeeded[i].metadata, "filename", <<"t","e","x","t">>)],
             types   |-> [i \in 1..Len(succeeded) |-> succeeded[i].type]],
         individual_results |-> results,
         success |-> \A i \in 1..Len(results) : results[i].success]

(***************************************************************************)
(* refinement_engine.py: the refiner.                                      *)
(***************************************************************************)
\* uuid.uuid4().hex[:8].upper() behind the PROMPT_ prefix
PromptIds == {"PROMPT_0000000A", "PROMPT_0000000B"}

\* datetime.now(), as a count of clock ticks
Instants == {1, 2}

SoftwareWords == << <<"a","p","p">>, <<"s","o","f","t","w","a","r","e">>, <<"c","o","d","e">>, <<"p","r","o","g","r","a","m">>, <<"s","y","s","t","e","m">> >>
DesignWords   == << <<"d","e","s","i","g","n">>, <<"u","i">>, <<"u","x">>, <<"i","n","t","e","r","f","a","c","e">>, <<"m","o","c","k","u","p">> >>
DataWords     == << <<"a","n","a","l","y","z","e">>, <<"d","a","t","a">>, <<"s","t","a","t","i","s","t","i","c","s">>, <<"r","e","p","o","r","t">> >>

\* the domain rules with the design bucket tried first
FallbackDomain_design_first(content_lower) ==
    IF AnyIn(DesignWords, content_lower) THEN "product_design"
    ELSE IF AnyIn(SoftwareWords, content_lower) THEN "software_development"
    ELSE IF AnyIn(DataWords, content_lower) THEN "data_analysis"
    ELSE "other"

\* the if/elif chain that sets domain
FallbackDomain(content_lower) ==
    IF AnyIn(SoftwareWords, content_lower) THEN "software_development"
    ELSE IF AnyIn(DesignWords, content_lower) THEN "product_design"
    ELSE IF AnyIn(DataWords, content_lower) THEN "data_analysis"
    ELSE "other"

AuthRequirement ==
    [description |-> "User authentication", priority |-> "critical",
     category |-> "authentication"]

DataRequirement ==
    [description |-> "Data persistence", priority |-> "high",
     category |-> "data"]

\* the requirement rules looking for "authentication" only
FallbackRequirements_no_login(content_lower) ==
    (IF Contains(content_lower, <<"a","u","t","h","e","n","t","i","c","a","t","i","o","n">>)
     THEN <<AuthRequirement>> ELSE <<>>)
    \o (IF Contains(content_lower, <<"d","a","t","a","b","a","s","e">>)
           \/ Contains(content_lower, <<"d","a","t","a"," ","s","t","o","r","a","g","e">>)
        THEN <<DataRequirement>> ELSE <<>>)

\* the two ifs that append to requirements
FallbackRequirements(content_lower) ==
    (IF Contains(content_lower, <<"a","u","t","h","e","n","t","i","c","a","t","i","o","n">>)
        \/ Contains(content_lower, <<"l","o","g","i","n">>)
     THEN <<AuthRequirement>> ELSE <<>>)
    \o (IF Contains(content_lower, <<"d","a","t","a","b","a","s","e">>)
           \/ Contains(content_lower, <<"d","a","t","a"," ","s","t","o","r","a","g","e">>)
        THEN <<DataRequirement>> ELSE <<>>)

\* the rule-based extractor; confidence_score is in hundredths (0.3 is 30)
_fallback_extraction(raw_content, input_metadata, id, now) ==
    LET content_lower == lower(raw_content)
        domain        == FallbackDomain(content_lower)
        requirements  == FallbackRequirements(content_lower)
    IN  [prompt_id |-> id,
         timestamp |-> now,
         input_types |-> <<"text">>,
         core_intent |-> IF Len(raw_content) > 100
                         THEN SubSeq(raw_content, 1, 100) \o <<".",".",".">>
                         ELSE raw_content,
         detailed_description |-> raw_content,
         domain |-> domain,
         functional_requirements |-> requirements,
         technical_constraints |-> <<>>,
         expected_outputs |-> <<>>,
         deliverable_format |-> None,
         background_context |-> None,
         success_criteria |-> <<>>,
         additional_notes |-> None,
         confidence_score |-> 30,
         ambiguities |-> <<"Automatic extraction - may be incomplete">>,
         assumptions_made |-> <<"Used rule-based extraction">>]

\* an exception leaving the function, with its str(e)
Raised(msg) == [raised |-> [fmt |-> msg, arg |-> <<>>]]

\* the values of PriorityLevel and of InputType (prompt_template.py)
PriorityLevels == {"critical", "high", "medium", "low"}
InputTypes     == {"text", "image", "pdf", "docx", "mixed"}

\* the conversion of structured data into a RefinedPrompt; PriorityLevel(...)
\* raises ValueError and a missing key raises KeyError
_create_refined_prompt(structured_data, input_metadata, id, now) ==
    LET declared    == Get(input_metadata, "type", "text")
        input_types == << IF declared \in InputTypes THEN declared
                          ELSE "text" >>
        reqs        == Get(structured_data, "functional_requirements", <<>>)
    IN  IF \E i \in 1..Len(reqs) : reqs[i].priority \notin PriorityLevels
        THEN Raised("ValueError: not a valid PriorityLevel")
        ELSE IF ~({"core_intent", "detailed_description", "domain"}
                     \subseteq DOMAIN structured_data)
        THEN Raised("KeyError")
        ELSE [prompt_id |-> id,
              timestamp |-> now,
              input_types |-> input_types,
              core_intent |-> structured_data.core_intent,
              detailed_description |-> structured_data.detailed_description,
              domain |-> structured_data.domain,
              functional_requirements |->
                 [i \in 1..Len(reqs) |->
                     [description |-> reqs[i].description,
                      priority |-> reqs[i].priority,
                      category |-> reqs[i].category]],
              technical_constraints |->
                 Get(structured_data, "technical_constraints", <<>>),
              expected_outputs |->
                 Get(structured_data, "expected_outputs", <<>>),
              deliverable_format |->
                 Get(structured_data, "deliverable_format", None),
              background_context |->
                 Get(structured_data, "background_context", None),
              success_criteria |->
                 Get(structured_data, "success_criteria", <<>>),
              additional_notes |-> None,
              confidence_score |->
                 Get(structured_data, "confidence_score", 50),
              ambiguities |-> Get(structured_data, "ambiguities", <<>>),
              assumptions_made |->
                 Get(structured_data, "assumptions_made", <<>>)]

\* the Python type of the value the input processor stores under each
\* metadata key
MetadataKind ==
    [filename |-> "str", length |-> "int", source |-> "str",
     size |-> "tuple", format |-> "str", num_pages |-> "int",
     num_paragraphs |-> "int", num_tables |-> "int", sources |-> "list",
     types |-> "list"]

\* json.dumps refusing tuples
JsonSerializable_no_tuple(input_metadata) ==
    \A k \in DOMAIN MetadataKind :
        k \in DOMAIN input_metadata =>
           MetadataKind[k] \in {"str", "int", "float", "bool", "NoneType",
                                "list", "dict"}

\* json.dumps(input_metadata, indent=2) returns instead of raising TypeError
JsonSerializable(input_metadata) ==
    \A k \in DOMAIN MetadataKind :
        k \in DOMAIN input_metadata =>
           MetadataKind[k] \in {"str", "int", "float", "bool", "NoneType",
                                "list", "tuple", "dict"}

\* the request text is built outside the try and may raise; the service
\* call is a placeholder, and both branches of the try return the rule-based
\* extraction
refine_with_claude(raw_content, input_metadata, id, now) ==
    IF ~JsonSerializable(input_metadata)
    THEN Raised("Object is not JSON serializable")
    ELSE _fallback_extraction(raw_content, input_metadata, id, now)

(***************************************************************************)
(* main_system.py: process_and_refine, one action per stage.               *)
(***************************************************************************)
\* an Optional[str] is a sequence of at most one string; <<>> is None
OutputNames == {<<>>, <<"">>, <<"out">>}

\* the basename ignoring the output name
Basename_always_id(name, prompt_id) == prompt_id

\* output_name or refined_prompt.prompt_id
Basename(name, prompt_id) ==
    IF name = <<>> \/ name[1] = "" THEN prompt_id ELSE name[1]

\* self.output_dir / f"{output_basename}{ext}"
OutputPath(base, ext) == [dir |-> "refined_prompts", base |-> base, ext |-> ext]

\* the input lists of a run: any single reference, or several of AggRefs
InputLists ==
    {<<r>> : r \in Refs}
    \cup {<<>>}
    \cup UNION {[1..n -> AggRefs] : n \in 2..MaxInputs}

\* step 1 taking the error of the first failed individual result
ProcessInputs_first_error(ins, name) ==
    /\ pc = "idle"
    /\ inputs' = ins
    /\ output_name' = name
    /\ LET p == IF Len(ins) = 1 THEN process_input(ins[1])
                ELSE process_multiple_inputs(ins)
           failed == IF "individual_results" \in DOMAIN p
                     THEN SelectSeq(p.individual_results,
                                    LAMBDA r : ~r.success)
                     ELSE <<p>>
       IN  /\ processed' = p
           /\ IF ~p.success
              THEN /\ ret' = [status |-> "failed",
                              stage  |-> "input_processing",
                              error  |-> failed[1].error,
                              result |-> None]
                   /\ pc' = "returned"
              ELSE /\ ret' = ret
                   /\ pc' = "relevance"
    /\ calls' = <<"input_processing">>
    /\ UNCHANGED <<fs, deps, verdict, refined, files, unit>>

\* step 1 of process_and_refine: extract, and return early on failure
ProcessInputs(ins, name) ==
    /\ pc = "idle"
    /\ inputs' = ins
    /\ output_name' = name
    /\ LET p == IF Len(ins) = 1 THEN process_input(ins[1])
                ELSE process_multiple_inputs(ins)
       IN  /\ processed' = p
           /\ IF ~p.success
              THEN /\ ret' = [status |-> "failed",
                              stage  |-> "input_processing",
                              error  |-> Get(p, "error",
                                             [fmt |-> "Unknown error",
                                              arg |-> <<>>]),
                              result |-> None]
                   /\ pc' = "returned"
              ELSE /\ ret' = ret
                   /\ pc' = "relevance"
    /\ calls' = <<"input_processing">>
    /\ UNCHANGED <<fs, deps, verdict, refined, files, unit>>

\* step 2 going on to the refiner whatever the gate says
CheckRelevance_no_return ==
    /\ pc = "relevance"
    /\ LET v == is_relevant_prompt(processed.content)
       IN  verdict' = [is_relevant |-> v[1], reason |-> v[2]]
    /\ calls' = Append(calls, "relevance_check")
    /\ pc' = "refine"
    /\ UNCHANGED <<fs, deps, inputs, output_name, processed, refined, ret,
                   files, unit>>

\* step 2: the relevance gate, and the early return on rejection
CheckRelevance ==
    /\ pc = "relevance"
    /\ LET v == is_relevant_prompt(processed.content)
       IN  /\ verdict' = [is_relevant |-> v[1], reason |-> v[2]]
           /\ IF ~v[1]
              THEN /\ ret' = [status |-> "rejected",
                              stage  |-> "relevance_check",
                              reason |-> v[2],
                              result |-> None]
                   /\ pc' = "returned"
              ELSE /\ ret' = ret
                   /\ pc' = "refine"
    /\ calls' = Append(calls, "relevance_check")
    /\ UNCHANGED <<fs, deps, inputs, output_name, processed, refined, files,
                   unit>>

\* step 3: the refiner, and the return when it raises
Refine ==
    /\ pc = "refine"
    /\ \E id \in PromptIds, now \in Instants :
          LET r == refine_with_claude(processed.content, processed.metadata,
                                      id, now)
          IN  IF "raised" \in DOMAIN r
              THEN /\ ret' = [status |-> "failed",
                              stage  |-> "refinement",
                              error  |-> r.raised,
                              result |-> None]
                   /\ refined' = refined
                   /\ pc' = "returned"
              ELSE /\ ret' = ret
                   /\ refined' = r
                   /\ pc' = "save"
    /\ calls' = Append(calls, "refinement")
    /\ UNCHANGED <<fs, deps, inputs, output_name, processed, verdict, files,
                   unit>>

\* step 4: write the two files and return the result
Save ==
    /\ pc = "save"
    /\ LET output_basename == Basename(output_name, refined.prompt_id)
           json_path == OutputPath(output_basename, ".json")
           md_path   == OutputPath(output_basename, ".md")
       IN  /\ files' = files \cup {json_path, md_path}
           /\ ret' = [status |-> "success",
                      stage  |-> "complete",
                      result |-> refined,
                      files  |-> [json |-> json_path, markdown |-> md_path]]
    /\ calls' = Append(calls, "save")
    /\ pc' = "returned"
    /\ UNCHANGED <<fs, deps, inputs, output_name, processed, verdict, refined,
                   unit>>

\* the caller has the returned dict; the locals of the run are gone
Return ==
    /\ pc = "returned"
    /\ pc' = "idle"
    /\ inputs' = <<>>
    /\ output_name' = <<>>
    /\ processed' = None
    /\ verdict' = None
    /\ refined' = None
    /\ ret' = None
    /\ calls' = <<>>
    /\ UNCHANGED <<fs, deps, files, unit>>

\* PromptRefinementSystem.__init__ and the state of the environment
Init ==
    /\ fs \in FsSnapshots
    /\ deps \in DepsSnapshots
    /\ pc = "idle"
    /\ inputs = <<>>
    /\ output_name = <<>>
    /\ processed = None
    /\ verdict = None
    /\ refined = None
    /\ ret = None
    /\ files = {}
    /\ calls = <<>>
    /\ unit = None

Start == \E ins \in InputLists, name \in OutputNames : ProcessInputs(ins, name)

Next == Start \/ CheckRelevance \/ Refine \/ Save \/ Return

Spec == Init /\ [][Next]_vars

(***************************************************************************)
(* Direct calls of the public methods, one call at a time.                 *)
(***************************************************************************)
Vocabulary == { <<"H","i">>, <<"t","h","i","s">>, <<"B","u","y"," ","N","o","w">>, <<"c","l","i","c","k","\n","h","e","r","e">>, <<"B","u","i","l","d">>,
                <<"h","a","p","p","y">>, <<"l","o","g","i","n">> }
Filler     == <<"o","f">>
Separators == { <<" ">>, <<"\n","\t">> }

\* head phrases followed by filler words, joined by one separator
GateContents ==
    {HiThere, LoginText, PeriodText, PaddedText, EmptyText}
    \cup { join(sep, head \o [i \in 1..k |-> Filler]) :
             sep \in Separators,
             head \in UNION {[1..h -> Vocabulary] : h \in 0..MaxHead},
             k \in 0..MaxPad }

CallIsRelevantPrompt ==
    /\ unit = None
    /\ \E content \in GateContents :
          unit' = [op  |-> "is_relevant_prompt",
                   arg |-> content,
                   res |-> is_relevant_prompt(content)]
    /\ UNCHANGED <<fs, deps, pc, inputs, output_name, processed, verdict,
                   refined, ret, files, calls>>

CallProcessInput ==
    /\ unit = None
    /\ \E input_path \in Refs :
          unit' = [op  |-> "process_input",
                   arg |-> input_path,
                   res |-> process_input_call(input_path).result,
                   invoked |-> process_input_call(input_path).invoked]
    /\ UNCHANGED <<fs, deps, pc, inputs, output_name, processed, verdict,
                   refined, ret, files, calls>>

CallProcessMultipleInputs ==
    /\ unit = None
    /\ \E n \in 0..MaxInputs : \E input_paths \in [1..n -> Refs] :
          unit' = [op  |-> "process_multiple_inputs",
                   arg |-> input_paths,
                   res |-> process_multiple_inputs(input_paths)]
    /\ UNCHANGED <<fs, deps, pc, inputs, output_name, processed, verdict,
                   refined, ret, files, calls>>

\* contents for the rule-based extractor: phrases joined by single spaces
DomainVocabulary == { <<"A","p","p">>, <<"D","e","s","i","g","n">>, <<"s","t","a","t","i","s","t","i","c","s">>, <<"L","o","g","i","n">>,
                      <<"D","a","t","a","b","a","s","e">>, <<"d","a","t","a"," ","s","t","o","r","a","g","e">>, <<"a","u","t","h","e","n","t","i","c","a","t","i","o","n">>,
                      <<"m","e","m","o">> }

FallbackContents ==
    {LoginText, EmptyText}
    \cup { join(<<" ">>, head) :
             head \in UNION {[1..h -> DomainVocabulary] : h \in 1..MaxHead} }

CallFallbackExtraction ==
    /\ unit = None
    /\ \E content \in FallbackContents, id \in PromptIds, now \in Instants :
          unit' = [op  |-> "_fallback_extraction",
                   arg |-> content,
                   res |-> _fallback_extraction(content, EmptyDict, id, now)]
    /\ UNCHANGED <<fs, deps, pc, inputs, output_name, processed, verdict,
                   refined, ret, files, calls>>

\* structured data as a refinement service could return it: the required
\* keys, a domain, at most one requirement, and possibly a confidence
\* score in hundredths
StructuredData ==
    LET domains == {"software_development", "product_design", "data_analysis",
                    "content_creation", "automation", "other", "gaming"}
        reqs    == {<<>>} \cup
                   { << [description |-> <<"S","i","g","n"," ","i","n">>, priority |-> p,
                         category |-> <<"a","u","t","h","e","n","t","i","c","a","t","i","o","n">>] >> :
                       p \in PriorityLevels \cup {"urgent"} }
        base    == [core_intent : {HiThere}, detailed_description : {HiThere},
                    domain : domains, functional_requirements : reqs]
        scored  == [core_intent : {HiThere}, detailed_description : {HiThere},
                    domain : domains, functional_requirements : reqs,
                    confidence_score : {-10, 30, 170}]
    IN  base \cup scored \cup {[core_intent |-> HiThere]}

CallCreateRefinedPrompt ==
    /\ unit = None
    /\ \E structured_data \in StructuredData,
          input_metadata \in {EmptyDict, [type |-> "pdf"], [type |-> "video"]},
          id \in PromptIds, now \in Instants :
          unit' = [op  |-> "_create_refined_prompt",
                   arg |-> structured_data,
                   res |-> _create_refined_prompt(structured_data,
                                                  input_metadata, id, now)]
    /\ UNCHANGED <<fs, deps, pc, inputs, output_name, processed, verdict,
                   refined, ret, files, calls>>

\* the caller drops the returned value
CallReturn ==
    /\ unit # None
    /\ unit' = None
    /\ UNCHANGED <<fs, deps, pc, inputs, output_name, processed, verdict,
                   refined, ret, files, calls>>

UnitNext ==
    \/ CallIsRelevantPrompt
    \/ CallProcessInput
    \/ CallProcessMultipleInputs
    \/ CallFallbackExtraction
    \/ CallCreateRefinedPrompt
    \/ CallReturn

UnitSpec == Init /\ [][UnitNext]_vars

(***************************************************************************)
(* Properties of the pipeline (checked under Spec).                        *)
(***************************************************************************)
\* the stages of process_and_refine in the order the code runs them
StageOrder == <<"input_processing", "relevance_check", "refinement", "save">>

\* C1: the pipeline stops at the first failing stage.  A failed extraction
\* returns status failed at stage input_processing with result None, and
\* neither the gate nor the refiner has run; a rejection by the gate returns
\* status rejected at stage relevance_check with the gate's reason and
\* result None, and the refiner has not run; no stage runs twice.
C1_ShortCircuit ==
    /\ calls = SubSeq(StageOrder, 1, Len(calls))
    /\ (processed # None /\ ~processed.success) =>
          /\ pc = "returned"
          /\ ret.status = "failed"
          /\ ret.stage = "input_processing"
          /\ ret.result = None
          /\ calls = <<"input_processing">>
          /\ verdict = None
          /\ refined = None
    /\ (verdict # None /\ ~verdict.is_relevant) =>
          /\ pc = "returned"
          /\ ret.status = "rejected"
          /\ ret.stage = "relevance_check"
          /\ ret.reason = verdict.reason
          /\ ret.result = None
          /\ calls = <<"input_processing", "relevance_check">>
          /\ refined = None

\* a run whose extraction succeeded has been rejected by the gate and has
\* returned
C1_Witness ==
    /\ pc = "returned"
    /\ processed # None /\ processed.success
    /\ verdict # None /\ ~verdict.is_relevant
    /\ ret.status = "rejected"

\* C2: a run that failed at input processing returns the error message of
\* an input that failed, and a processed result carries an error message
\* exactly when its success is false.
C2_ErrorIsExtractorMessage ==
    (pc = "returned" /\ ret.status = "failed"
        /\ ret.stage = "input_processing") =>
       /\ ("error" \in DOMAIN processed) <=> ~processed.success
       /\ \E i \in 1..Len(inputs) :
             LET r == process_input(inputs[i])
             IN  ~r.success /\ ret.error = r.error

(***************************************************************************)
(* Properties of the public methods (checked under UnitSpec).              *)
(***************************************************************************)
\* the call in progress is a call of the method op
Called(op) == "op" \in DOMAIN unit /\ unit.op = op

\* s contains p when the case of the letters is ignored
CIContains(s, p) ==
    \E i \in 1..(Len(s) - Len(p) + 1) :
        \A j \in 1..Len(p) : LowerChar(s[i + j - 1]) = LowerChar(p[j])

AnyCI(patterns, s) == \E k \in 1..Len(patterns) : CIContains(s, patterns[k])

\* t is s without its leading and trailing whitespace
IsTrimOf(t, s) ==
    /\ Len(t) > 0 => (t[1] \notin Whitespace /\ t[Len(t)] \notin Whitespace)
    /\ \E i \in 0..(Len(s) - Len(t)) :
          /\ \A j \in 1..Len(t) : s[i + j] = t[j]
          /\ \A j \in 1..i : s[j] \in Whitespace
          /\ \A j \in (i + Len(t) + 1)..Len(s) : s[j] \in Whitespace

\* C3: a result of process_input or process_multiple_inputs whose success
\* is false has empty content and type error.
C3_FailureIsEmptyError ==
    ((Called("process_input") \/ Called("process_multiple_inputs"))
        /\ ~unit.res.success) =>
       (unit.res.content = <<>> /\ unit.res.type = "error")

\* C4: content of fewer than 5 words is rejected as too short, whatever
\* greeting, spam phrase or task keyword it contains.
C4_ShortIsTooShort ==
    (Called("is_relevant_prompt") /\ WordCount(unit.arg) < 5) =>
       unit.res = <<FALSE, TooShort>>

\* the gate has rejected as too short a content that holds a greeting and
\* a task keyword or a spam phrase
C4_Witness ==
    /\ Called("is_relevant_prompt")
    /\ WordCount(unit.arg) < 5
    /\ AnyCI(greetings, unit.arg)
    /\ AnyCI(relevance_keywords, unit.arg) \/ AnyCI(spam_patterns, unit.arg)
    /\ unit.res = <<FALSE, TooShort>>

\* C5 as stated: "hi there" is rejected as a greeting.
C5_HiThereGreeting ==
    (Called("is_relevant_prompt") /\ unit.arg = HiThere) =>
       unit.res = <<FALSE, Greeting>>

\* C5 as amended: "hi there" is rejected as too short, the length rule being
\* tried before the greeting rule.
C5_HiThereTooShort ==
    (Called("is_relevant_prompt") /\ unit.arg = HiThere) =>
       unit.res = <<FALSE, TooShort>>

\* the gate has been called on "hi there" and has rejected it
C5_Witness ==
    /\ Called("is_relevant_prompt")
    /\ unit.arg = HiThere
    /\ ~unit.res[1]

\* C6: content of at least 5 words that contains a task keyword, contains no
\* spam phrase and does not match the greeting rule (a greeting in fewer
\* than 10 words) is accepted as relevant.
C6_KeywordAccepted ==
    (/\ Called("is_relevant_prompt")
     /\ WordCount(unit.arg) >= 5
     /\ AnyCI(relevance_keywords, unit.arg)
     /\ ~AnyCI(spam_patterns, unit.arg)
     /\ ~(AnyCI(greetings, unit.arg) /\ WordCount(unit.arg) < 10)) =>
       unit.res = <<TRUE, Relevant>>

\* the gate has accepted a content that holds a greeting next to a keyword
\* written in capitals, in ten words or more
C6_Witness ==
    /\ Called("is_relevant_prompt")
    /\ WordCount(unit.arg) >= 10
    /\ AnyCI(greetings, unit.arg)
    /\ AnyCI(relevance_keywords, unit.arg)
    /\ ~AnyIn(relevance_keywords, unit.arg)
    /\ unit.res = <<TRUE, Relevant>>

\* the rules of the gate in their order: the reason and whether the rule
\* matches the content
GateRules(content) ==
    << [reason |-> TooShort,   hit |-> WordCount(content) < 5],
       [reason |-> Greeting,   hit |-> AnyCI(greetings, content)
                                       /\ WordCount(content) < 10],
       [reason |-> Spam,       hit |-> AnyCI(spam_patterns, content)],
       [reason |-> NoKeywords, hit |-> ~AnyCI(relevance_keywords, content)],
       [reason |-> Relevant,   hit |-> TRUE] >>

\* C7: the gate returns the reason of the first rule, in the order TooShort,
\* Greeting, Spam, NoKeywords, Relevant, that matches the content without
\* regard to case, and accepts only when that rule is Relevant.
C7_FirstMatchWins ==
    Called("is_relevant_prompt") =>
       LET rules == GateRules(unit.arg)
           first == CHOOSE k \in 1..5 :
                       rules[k].hit /\ \A j \in 1..(k - 1) : ~rules[j].hit
       IN  unit.res = <<first = 5, rules[first].reason>>

\* the gate has rejected as a greeting a content of 5 to 9 words that holds
\* both a greeting and a spam phrase
C7_Witness ==
    /\ Called("is_relevant_prompt")
    /\ WordCount(unit.arg) >= 5
    /\ WordCount(unit.arg) < 10
    /\ AnyCI(greetings, unit.arg)
    /\ AnyCI(spam_patterns, unit.arg)
    /\ unit.res = <<FALSE, Greeting>>

\* C8: a reference that does not exist goes to the text extractor (success,
\* type text, content the trimmed reference) exactly when it holds none of
\* '.', '/' and '\'; otherwise the call fails with File not found and no
\* extractor is called.
C8_MissingReference ==
    (Called("process_input") /\ ~exists(unit.arg)) =>
       IF \A i \in 1..Len(unit.arg) : unit.arg[i] \notin {".", "/", "\\"}
       THEN /\ unit.invoked = <<"process_text">>
            /\ unit.res.success
            /\ unit.res.type = "text"
            /\ IsTrimOf(unit.res.content, unit.arg)
       ELSE /\ unit.invoked = <<>>
            /\ ~unit.res.success
            /\ unit.res.error = [fmt |-> "File not found", arg |-> <<>>]

\* process_input has failed with File not found on a missing reference
\* whose only path character is a backslash
C8_Witness ==
    /\ Called("process_input")
    /\ ~exists(unit.arg)
    /\ unit.arg = BackslashRef
    /\ unit.invoked = <<>>
    /\ unit.res.error.fmt = "File not found"

\* the extension table of the dispatcher
TextExts  == {<<".","t","x","t">>, <<".","m","d">>}
ImageExts == {<<".","j","p","g">>, <<".","j","p","e","g">>, <<".","p","n","g">>, <<".","b","m","p">>, <<".","g","i","f">>}

\* C9: a reference that exists is routed by its lowercased suffix alone:
\* .txt .md to the text-file extractor, .jpg .jpeg .png .bmp .gif to OCR,
\* .pdf to the PDF extractor, .docx to the DOCX extractor, each calling that
\* one extractor; any other suffix fails with Unsupported file format and
\* calls no extractor.
C9_RouteBySuffix ==
    (Called("process_input") /\ exists(unit.arg)) =>
       LET ext == [i \in 1..Len(suffix(unit.arg)) |->
                       LowerChar(suffix(unit.arg)[i])]
       IN  IF ext \in TextExts THEN unit.invoked = <<"process_text_file">>
           ELSE IF ext \in ImageExts THEN unit.invoked = <<"process_image">>
           ELSE IF ext = <<".","p","d","f">> THEN unit.invoked = <<"process_pdf">>
           ELSE IF ext = <<".","d","o","c","x">> THEN unit.invoked = <<"process_docx">>
           ELSE /\ unit.invoked = <<>>
                /\ ~unit.res.success
                /\ unit.res.error = [fmt |-> "Unsupported file format: ",
                                     arg |-> ext]

\* process_input has sent an existing file whose suffix is in capitals to
\* the text-file extractor
C9_Witness ==
    /\ Called("process_input")
    /\ exists(unit.arg)
    /\ unit.arg = MdPath
    /\ unit.invoked = <<"process_text_file">>

\* C10: when every one of the N inputs succeeds, the aggregate succeeds,
\* types and sources have N entries, entry i being the type and the filename
\* (or "text") of input i, and the content is the N blocks, each a delimiter
\* line, a blank line and the content of input i, separated by blank lines
\* in input order.
C10_AllSucceed ==
    (/\ Called("process_multiple_inputs")
     /\ \A i \in 1..Len(unit.arg) : process_input(unit.arg[i]).success) =>
       LET n == Len(unit.arg)
           r == [i \in 1..n |-> process_input(unit.arg[i])]
           block == [i \in 1..n |->
                        <<"-","-","-"," ","S","o","u","r","c","e",":"," ">>
                        \o (IF "filename" \in DOMAIN r[i].metadata
                            THEN r[i].metadata.filename ELSE <<"t","e","x","t"," ","i","n","p","u","t">>)
                        \o <<" ","-","-","-","\n","\n">> \o r[i].content]
       IN  /\ unit.res.success
           /\ Len(unit.res.metadata.types) = n
           /\ Len(unit.res.metadata.sources) = n
           /\ \A i \in 1..n :
                 /\ unit.res.metadata.types[i] = r[i].type
                 /\ unit.res.metadata.sources[i] =
                       (IF "filename" \in DOMAIN r[i].metadata
                        THEN r[i].metadata.filename ELSE <<"t","e","x","t">>)
           /\ unit.res.content = join(<<"\n","\n">>, block)

\* process_multiple_inputs has aggregated two successful inputs of
\* different types
C10_Witness ==
    /\ Called("process_multiple_inputs")
    /\ Len(unit.arg) >= 2
    /\ \A i \in 1..Len(unit.arg) : process_input(unit.arg[i]).success
    /\ unit.res.success
    /\ unit.res.metadata.types[1] # unit.res.metadata.types[2]

(***************************************************************************)
(* Properties of the aggregate inside the pipeline (checked under Spec).   *)
(***************************************************************************)
\* the indices of the inputs of the run whose extraction fails
FailedInputs == {i \in 1..Len(inputs) : ~process_input(inputs[i]).success}

\* C11: in a run over N >= 2 inputs of which exactly one fails, the
\* aggregate has success false, sources and types hold the N-1 successful
\* entries in input order, individual_results holds all N results in input
\* order, and the run returns failed at input processing.
C11_OneFailureFailsAll ==
    (/\ Len(inputs) >= 2
     /\ processed # None
     /\ Cardinality(FailedInputs) = 1) =>
       LET n    == Len(inputs)
           bad  == CHOOSE i \in FailedInputs : TRUE
           \* the input behind entry k of sources and types
           at(k) == IF k < bad THEN k ELSE k + 1
           r    == [i \in 1..n |-> process_input(inputs[i])]
       IN  /\ ~processed.success
           /\ Len(processed.metadata.types) = n - 1
           /\ Len(processed.metadata.sources) = n - 1
           /\ \A k \in 1..(n - 1) :
                 /\ processed.metadata.types[k] = r[at(k)].type
                 /\ processed.metadata.sources[k] =
                       (IF "filename" \in DOMAIN r[at(k)].metadata
                        THEN r[at(k)].metadata.filename
                        ELSE <<"t","e","x","t">>)
           /\ Len(processed.individual_results) = n
           /\ \A i \in 1..n : processed.individual_results[i] = r[i]
           /\ pc = "returned"
           /\ ret.status = "failed"
           /\ ret.stage = "input_processing"

\* a run over several inputs has failed although its first input was
\* extracted and only a later one failed
C11_Witness ==
    /\ pc = "returned"
    /\ Len(inputs) >= 2
    /\ Cardinality(FailedInputs) = 1
    /\ 1 \notin FailedInputs
    /\ Len(processed.metadata.types) = Len(inputs) - 1
    /\ ret.status = "failed"

\* the keys of a metadata dict
Keys(d) == {k \in DOMAIN MetadataKind : k \in DOMAIN d}

\* C12: a run over the single input x hands the gate and the refiner the
\* content and the metadata keys that process_multiple_inputs([x]) yields,
\* and reaches the verdict of the gate on that aggregate.
C12_SingleIsAggregateOfOne ==
    (Len(inputs) = 1 /\ processed # None) =>
       LET agg == process_multiple_inputs(inputs)
       IN  /\ processed.success = agg.success
           /\ processed.content = agg.content
           /\ Keys(processed.metadata) = Keys(agg.metadata)
           /\ verdict # None =>
                 LET v == is_relevant_prompt(agg.content)
                 IN  verdict = [is_relevant |-> v[1], reason |-> v[2]]

\* C13: no failure of the refinement path reaches the caller.  A run whose
\* extraction succeeded and whose content the gate accepted gets the complete
\* prompt of the rule-based extraction (confidence 0.3, assumptions "Used
\* rule-based extraction"), and no run returns failed at stage refinement.
C13_RefinementNeverFails ==
    /\ ret # None => ~(ret.status = "failed" /\ ret.stage = "refinement")
    /\ (/\ pc = "returned"
        /\ processed.success
        /\ verdict # None /\ verdict.is_relevant) =>
          /\ ret.status = "success"
          /\ ret.result = refined
          /\ DOMAIN refined =
                {"prompt_id", "timestamp", "input_types", "core_intent",
                 "detailed_description", "domain", "functional_requirements",
                 "technical_constraints", "expected_outputs",
                 "deliverable_format", "background_context",
                 "success_criteria", "additional_notes", "confidence_score",
                 "ambiguities", "assumptions_made"}
          /\ refined.prompt_id \in PromptIds
          /\ refined.detailed_description = processed.content
          /\ refined.confidence_score = 30
          /\ refined.assumptions_made = <<"Used rule-based extraction">>

\* a run over an image, whose metadata holds the size tuple, has been
\* refined and has returned success
C13_Witness ==
    /\ pc = "returned"
    /\ processed.success
    /\ processed.type = "image"
    /\ "size" \in DOMAIN processed.metadata
    /\ verdict.is_relevant
    /\ ret.status = "success"
    /\ ret.result.confidence_score = 30

\* C14: the input_types of the refined prompt are the declared type of the
\* processed input (text, image, pdf, docx or mixed).
C14_InputTypesFromDeclaredType ==
    (refined # None /\ processed.type \in {"text", "image", "pdf", "docx",
                                           "mixed"}) =>
       refined.input_types = <<processed.type>>

\* C18: a step of a run changes the output directory only when the run
\* returns success, and then it writes the two files <basename>.json and
\* <basename>.md, the basename being the output name when one (not None, not
\* empty) was passed and else the prompt_id of the run's refined prompt; a
\* run that returns failed or rejected writes nothing, and once the caller
\* has the result nothing but the output directory is left of the run.
C18_FilesIffSuccess ==
    [][/\ IF pc' = "returned" /\ ret'.status = "success"
          THEN LET base == IF output_name' # <<>> /\ output_name'[1] # ""
                           THEN output_name'[1]
                           ELSE ret'.result.prompt_id
               IN  /\ files' = files \cup
                         {[dir |-> "refined_prompts", base |-> base,
                           ext |-> ".json"],
                          [dir |-> "refined_prompts", base |-> base,
                           ext |-> ".md"]}
                   /\ ret'.files.json =
                         [dir |-> "refined_prompts", base |-> base,
                          ext |-> ".json"]
                   /\ ret'.files.markdown =
                         [dir |-> "refined_prompts", base |-> base,
                          ext |-> ".md"]
          ELSE files' = files
       /\ pc' = "idle" =>
             /\ inputs' = <<>> /\ output_name' = <<>>
             /\ processed' = None /\ verdict' = None
             /\ refined' = None /\ ret' = None /\ calls' = <<>>
      ]_vars

\* a run that was given an output name has returned success after an
\* earlier run without a name left its two files in the directory
C18_Witness ==
    /\ pc = "returned"
    /\ ret.status = "success"
    /\ output_name = <<"out">>
    /\ Cardinality(files) = 4
    /\ \E id \in PromptIds :
          [dir |-> "refined_prompts", base |-> id, ext |-> ".md"] \in files
    /\ [dir |-> "refined_prompts", base |-> "out", ext |-> ".json"] \in files
    /\ [dir |-> "refined_prompts", base |-> "out", ext |-> ".md"] \in files

\* C19: in a run over two or more inputs that were all extracted, the gate
\* is given the combined content with its delimiter lines, and so does not
\* reject it as too short.
C19_AggregateNeverTooShort ==
    (Len(inputs) >= 2 /\ processed # None /\ processed.success
        /\ verdict # None) =>
       /\ verdict.reason # TooShort
       /\ WordCount(processed.content) >= 5
       /\ Contains(processed.content,
                   <<"-","-","-"," ","S","o","u","r","c","e",":"," ">>)

\* the gate has given its verdict on a run over two inputs whose contents
\* have one word each
C19_Witness ==
    /\ Len(inputs) = 2
    /\ processed # None /\ processed.success
    /\ verdict # None
    /\ \A i \in 1..2 :
          WordCount(processed.individual_results[i].content) = 1
    /\ verdict.reason # TooShort

(***************************************************************************)
(* Properties of the refiner (checked under UnitSpec).                     *)
(***************************************************************************)
Domains == {"software_development", "product_design", "data_analysis",
            "content_creation", "automation", "other"}

\* C15: a RefinedPrompt built by _fallback_extraction or by
\* _create_refined_prompt has a confidence score within 0.0 .. 1.0, one of
\* the six domains, and requirement priorities among the four levels.
C15_PromptWithinSchema ==
    ((Called("_fallback_extraction") \/ Called("_create_refined_prompt"))
        /\ "raised" \notin DOMAIN unit.res) =>
       /\ unit.res.confidence_score >= 0
       /\ unit.res.confidence_score <= 100
       /\ unit.res.domain \in Domains
       /\ \A i \in 1..Len(unit.res.functional_requirements) :
             unit.res.functional_requirements[i].priority \in
                {"critical", "high", "medium", "low"}

\* the domain buckets in their order of precedence
DomainBuckets ==
    << [domain |-> "software_development", words |-> SoftwareWords],
       [domain |-> "product_design",       words |-> DesignWords],
       [domain |-> "data_analysis",        words |-> DataWords] >>

\* C16: the domain of the rule-based extraction is that of the first bucket,
\* in the order software_development, product_design, data_analysis, of
\* which the content holds a keyword in any case, and other when there is
\* none; it is the same for every id and instant of the call.
C16_DomainPrecedence ==
    Called("_fallback_extraction") =>
       LET hits == {k \in 1..3 : AnyCI(DomainBuckets[k].words, unit.arg)}
           expected ==
              IF hits = {} THEN "other"
              ELSE DomainBuckets[CHOOSE k \in hits :
                                    \A j \in hits : k <= j].domain
       IN  /\ unit.res.domain = expected
           /\ \A id \in PromptIds, now \in Instants :
                 _fallback_extraction(unit.arg, EmptyDict, id, now).domain
                    = unit.res.domain

\* the extraction has classified as software_development a content that
\* holds keywords of all three buckets
C16_Witness ==
    /\ Called("_fallback_extraction")
    /\ \A k \in 1..3 : AnyCI(DomainBuckets[k].words, unit.arg)
    /\ unit.res.domain = "software_development"

\* C17: the requirements of the rule-based extraction are the authentication
\* requirement exactly when the content holds "authentication" or "login",
\* followed by the data requirement exactly when it holds "database" or
\* "data storage", and nothing else; the login sentence yields
\* software_development, both requirements, confidence 0.30 and the one
\* ambiguity.
C17_RequirementInjection ==
    Called("_fallback_extraction") =>
       LET auth == CIContains(unit.arg, <<"a","u","t","h","e","n","t","i","c",
                                          "a","t","i","o","n">>)
                   \/ CIContains(unit.arg, <<"l","o","g","i","n">>)
           data == CIContains(unit.arg, <<"d","a","t","a","b","a","s","e">>)
                   \/ CIContains(unit.arg, <<"d","a","t","a"," ","s","t","o",
                                             "r","a","g","e">>)
           first  == [description |-> "User authentication",
                      priority |-> "critical", category |-> "authentication"]
           second == [description |-> "Data persistence",
                      priority |-> "high", category |-> "data"]
       IN  /\ unit.res.functional_requirements =
                 (IF auth THEN <<first>> ELSE <<>>)
                 \o (IF data THEN <<second>> ELSE <<>>)
           /\ unit.arg = LoginText =>
                 /\ unit.res.domain = "software_development"
                 /\ unit.res.functional_requirements = <<first, second>>
                 /\ unit.res.confidence_score = 30
                 /\ unit.res.ambiguities =
                       <<"Automatic extraction - may be incomplete">>

\* the extraction has been applied to the login sentence
C17_Witness ==
    /\ Called("_fallback_extraction")
    /\ unit.arg = LoginText
    /\ Len(unit.res.functional_requirements) = 2

====
